---- MODULE Spec2Model ----
(***************************************************************************)
(* Stock tank filler ("CCS Files/Stock Tank.c", MSP430G2553).              *)
(*                                                                         *)
(* The foreground (main and Solenoid_pulse) is modelled statement by       *)
(* statement at every access to something an interrupt handler also        *)
(* touches (clk_count, the status register, TA0CCTL0).  The two interrupt  *)
(* handlers run atomically (GIE is clear inside a handler).  The model is  *)
(* untimed: the watchdog interval timer and Timer_A may expire whenever    *)
(* their clock is running.                                                 *)
(***************************************************************************)
EXTENDS Integers, Sequences, FiniteSets, TLC

VARIABLES
  pc,         \* next foreground statement
  ret,        \* call site Solenoid_pulse returns to
  dir,        \* parameter of Solenoid_pulse
  state,      \* unsigned int state
  clk_count,  \* unsigned int clk_count
  P1OUT,      \* port 1 output latch (8 bit)
  P2OUT,      \* port 2 output latch (8 bit)
  sw,         \* level of the float switch pin P2.4 (TRUE = high = full)
  gie,        \* SR.GIE
  cpuoff,     \* SR.CPUOFF
  scg1,       \* SR.SCG1 (SMCLK off)
  wdtifg,     \* IFG1.WDTIFG
  ccie,       \* TA0CCTL0.CCIE
  ccifg,      \* TA0CCTL0.CCIFG
  timerOn,    \* TA0CTL.MC = up mode
  ev,         \* history of the evaluation in progress (observer only)
  firstCmd,   \* direction of the first Solenoid_pulse call (observer only)
  obs         \* history of the valve commands (observer only)

vars == <<pc, ret, dir, state, clk_count, P1OUT, P2OUT, sw, gie, cpuoff, scg1,
          wdtifg, ccie, ccifg, timerOn, ev, firstCmd, obs>>

----------------------------------------------------------------------------
(* Bounds *)

\* the interval timer stops expiring once clk_count has reached MaxTick
MaxTick == 66

\* interval interrupts left before clk_count wraps, where a run starts late
\* in a long stay in state 3
WrapLead == 3

----------------------------------------------------------------------------
(* Program constants *)

LED == 8
Tank_Full == 16
nSLEEP == 2
Solenoid_on == 16
Solenoid_off == 32
check_interval == 2
off == FALSE
on == TRUE

UIntMod == 65536

\* the thresholds as the specification names them
CheckIntervalTicks == 2
MinOnTicks == 1
MaxOnTicks == 64
CooldownTicks == 32

----------------------------------------------------------------------------
(* C integer operators *)

RECURSIVE BitAnd(_, _)
BitAnd(a, b) ==
  IF a = 0 \/ b = 0 THEN 0
  ELSE (a % 2) * (b % 2) + 2 * BitAnd(a \div 2, b \div 2)

BitOr(a, b) == a + b - BitAnd(a, b)

\* ~x on a 16 bit int
BitNot(x) == (UIntMod - 1) - x

RECURSIVE ShiftLeft(_, _)
ShiftLeft(x, n) == IF n = 0 THEN x ELSE ShiftLeft((2 * x) % UIntMod, n - 1)

\* the value an 8 bit port register keeps of a 16 bit int
Byte(x) == x % 256

----------------------------------------------------------------------------
(* Ports *)

P2DIR == Byte(BitNot(Tank_Full))

\* P2IN: output pins read back their latch, P2.4 reads the float switch
P2IN == BitOr(BitAnd(P2OUT, P2DIR), IF sw THEN Tank_Full ELSE 0)

\* lines 152-155 without the else
DriveBits_noelse(d) ==
  IF d THEN Solenoid_on + Solenoid_off ELSE Solenoid_off

DriveBits(d) == IF d THEN Solenoid_on ELSE Solenoid_off

EnableBits == LED + nSLEEP

\* line 168 releasing SELECT2 only
DecayMask_OffOnly == Byte(BitNot(Solenoid_off))

DecayMask == Byte((BitNot(Solenoid_off) + BitNot(Solenoid_on)) % UIntMod)

\* line 178 clearing nSLEEP only
DisableMask_KeepLed == Byte(BitNot(nSLEEP))

\* line 178 as the commented-out line 179: clearing LED only
DisableMask_LedOnly == Byte(BitNot(LED))

DisableMask == Byte((BitNot(LED) + BitNot(nSLEEP)) % UIntMod)

----------------------------------------------------------------------------
(* Conditions of the state machine *)

\* line 88 with >= for >
IdleDue_ge(c) == c >= check_interval

IdleDue(c) == c > check_interval

NeedsWater(p) == BitAnd(p, Tank_Full) = 0

\* line 100 with >= for >
MinOnElapsed_ge(c) == c >= 1

MinOnElapsed(c) == c > 1

PortHigh(p) == p # 0

\* line 107 shifting by 6 for 5
MaxOnReached_shift6(c) == c >= ShiftLeft(check_interval, 6)

\* line 107 with > for >=
MaxOnReached_gt(c) == c > ShiftLeft(check_interval, 5)

MaxOnReached(c) == c >= ShiftLeft(check_interval, 5)

\* line 116 shifting by 3 for 4
CooldownDone_shift3(c) == c >= ShiftLeft(check_interval, 3)

\* line 116 with > for >=
CooldownDone_gt(c) == c > ShiftLeft(check_interval, 4)

CooldownDone(c) == c >= ShiftLeft(check_interval, 4)

----------------------------------------------------------------------------
(* Observer *)

EvNone == [st |-> -1, c |-> -1, c2 |-> -1, sw |-> "none", rst |-> FALSE,
           np |-> 0, pd |-> FALSE]

EvStart(s, c) == [EvNone EXCEPT !.st = s, !.c = c]

Level(b) == IF b THEN "high" ELSE "low"

CmdName(d) == IF d THEN "Open" ELSE "Close"

\* ticks counted since the last close of Filling -> CooldownHysteresis
SinceCap == CooldownTicks + CheckIntervalTicks + 2

\* last: the last valve command; opened: an Open was issued; high: the float
\* switch was read high since the last Open; since: interval interrupts since
\* the last Close of line 104, counted up to SinceCap
ObsInit == [last |-> "none", opened |-> FALSE, high |-> FALSE,
            since |-> SinceCap]

ObsCall(d, r) ==
  [obs EXCEPT !.last = CmdName(d),
              !.opened = @ \/ d,
              !.high = IF d THEN FALSE ELSE @,
              !.since = IF r = "c1_full" THEN 0 ELSE @]

ObsRead == [obs EXCEPT !.high = @ \/ sw]

ObsTick == [obs EXCEPT !.since = IF @ < SinceCap THEN @ + 1 ELSE @]

----------------------------------------------------------------------------
(* Initial state: main() lines 68-78 executed, about to call               *)
(* Solenoid_pulse(off)                                                     *)

Init ==
  /\ pc = "init_pulse"
  /\ ret = "init"
  /\ dir = FALSE
  /\ state = 0
  /\ clk_count = 0
  /\ P1OUT = 0
  /\ P2OUT = LED
  /\ sw \in BOOLEAN
  /\ gie = FALSE
  /\ cpuoff = FALSE
  /\ scg1 = FALSE
  /\ wdtifg = FALSE
  /\ ccie = FALSE
  /\ ccifg = FALSE
  /\ timerOn = FALSE
  /\ ev = EvNone
  /\ firstCmd = "none"
  /\ obs = ObsInit

----------------------------------------------------------------------------
(* Environment and interrupt sources *)

\* the float switch changes level
FloatSwitch ==
  /\ sw' = ~sw
  /\ UNCHANGED <<pc, ret, dir, state, clk_count, P1OUT, P2OUT, gie, cpuoff,
                 scg1, wdtifg, ccie, ccifg, timerOn, ev, firstCmd, obs>>

\* the watchdog interval timer (ACLK, runs in every power mode) expires
WdtExpire ==
  /\ ~wdtifg
  /\ clk_count < MaxTick
  /\ wdtifg' = TRUE
  /\ UNCHANGED <<pc, ret, dir, state, clk_count, P1OUT, P2OUT, sw, gie,
                 cpuoff, scg1, ccie, ccifg, timerOn, ev, firstCmd, obs>>

\* Timer_A (SMCLK, up mode) reaches CCR0
TimerExpire ==
  /\ timerOn
  /\ ~scg1
  /\ ~ccifg
  /\ ccifg' = TRUE
  /\ UNCHANGED <<pc, ret, dir, state, clk_count, P1OUT, P2OUT, sw, gie,
                 cpuoff, scg1, wdtifg, ccie, timerOn, ev, firstCmd, obs>>

WdtPending == gie /\ wdtifg

TimerPending == gie /\ ccie /\ ccifg

\* watchdog_timer also leaving the cool-down state by itself
watchdog_timer_state ==
  /\ WdtPending
  /\ wdtifg' = FALSE
  /\ clk_count' = (clk_count + 1) % UIntMod
  /\ state' = IF state = 2 THEN 0 ELSE state
  /\ obs' = ObsTick
  /\ cpuoff' = FALSE
  /\ scg1' = FALSE
  /\ UNCHANGED <<pc, ret, dir, P1OUT, P2OUT, sw, gie, ccie, ccifg,
                 timerOn, ev, firstCmd>>

\* interrupt handler watchdog_timer
watchdog_timer ==
  /\ WdtPending
  /\ wdtifg' = FALSE
  /\ clk_count' = (clk_count + 1) % UIntMod
  /\ obs' = ObsTick
  /\ cpuoff' = FALSE
  /\ scg1' = FALSE
  /\ UNCHANGED <<pc, ret, dir, state, P1OUT, P2OUT, sw, gie, ccie, ccifg,
                 timerOn, ev, firstCmd>>

\* interrupt handler Timer_A
Timer_A ==
  /\ TimerPending
  /\ ccie' = FALSE
  /\ ccifg' = FALSE
  /\ cpuoff' = FALSE
  /\ UNCHANGED <<pc, ret, dir, state, clk_count, P1OUT, P2OUT, sw, gie, scg1,
                 wdtifg, timerOn, ev, firstCmd, obs>>

----------------------------------------------------------------------------
(* Foreground *)

\* the CPU executes the statement at p: it is awake and no interrupt is due
Runs(p) == pc = p /\ ~cpuoff /\ ~WdtPending /\ ~TimerPending

\* call Solenoid_pulse(d) from call site r
Call(d, r) ==
  /\ pc' = "p_drive"
  /\ dir' = d
  /\ ret' = r
  /\ firstCmd' = IF firstCmd = "none" THEN CmdName(d) ELSE firstCmd
  /\ obs' = ObsCall(d, r)

\* break; then line 131 is next
Break == pc' = "lpm3"

\* line 80 passing on for off
InitialPulse_on ==
  /\ Runs("init_pulse")
  /\ Call(on, "init")
  /\ UNCHANGED <<state, clk_count, P1OUT, P2OUT, sw, gie, cpuoff, scg1,
                 wdtifg, ccie, ccifg, timerOn, ev>>

\* line 80
InitialPulse ==
  /\ Runs("init_pulse")
  /\ Call(off, "init")
  /\ UNCHANGED <<state, clk_count, P1OUT, P2OUT, sw, gie, cpuoff, scg1,
                 wdtifg, ccie, ccifg, timerOn, ev>>

----------------------------------------------------------------------------
(* Solenoid_pulse *)

\* lines 152-162: drive the selected line, enable the DRV8833, arm Timer_A
PulseDrive ==
  /\ Runs("p_drive")
  /\ P1OUT' = BitOr(P1OUT, DriveBits(dir))
  /\ P2OUT' = BitOr(P2OUT, EnableBits)
  /\ ccie' = TRUE
  /\ ccifg' = FALSE
  /\ timerOn' = TRUE
  /\ pc' = "p_sleep1"
  /\ UNCHANGED <<ret, dir, state, clk_count, sw, gie, cpuoff, scg1, wdtifg,
                 ev, firstCmd, obs>>

\* line 164: _BIS_SR(LPM0_bits + GIE)
PulseSleep1 ==
  /\ Runs("p_sleep1")
  /\ cpuoff' = TRUE
  /\ gie' = TRUE
  /\ pc' = "p_decay"
  /\ UNCHANGED <<ret, dir, state, clk_count, P1OUT, P2OUT, sw, scg1, wdtifg,
                 ccie, ccifg, timerOn, ev, firstCmd, obs>>

\* lines 168-172: release both lines (fast decay), arm Timer_A again
PulseDecay ==
  /\ Runs("p_decay")
  /\ P1OUT' = BitAnd(P1OUT, DecayMask)
  /\ ccie' = TRUE
  /\ ccifg' = FALSE
  /\ timerOn' = TRUE
  /\ pc' = "p_sleep2"
  /\ UNCHANGED <<ret, dir, state, clk_count, P2OUT, sw, gie, cpuoff, scg1,
                 wdtifg, ev, firstCmd, obs>>

\* line 174: _BIS_SR(LPM0_bits + GIE)
PulseSleep2 ==
  /\ Runs("p_sleep2")
  /\ cpuoff' = TRUE
  /\ gie' = TRUE
  /\ pc' = "p_end"
  /\ UNCHANGED <<ret, dir, state, clk_count, P1OUT, P2OUT, sw, scg1, wdtifg,
                 ccie, ccifg, timerOn, ev, firstCmd, obs>>

\* line 106 without its else: line 107 follows the call of line 104
ReturnTo_noelse(r) ==
  IF r = "init" THEN "switch" ELSE IF r = "c1_full" THEN "c1_max" ELSE "lpm3"

\* where Solenoid_pulse returns to: line 83 after the call of line 80,
\* the break of the case after the calls of lines 94, 104 and 109
ReturnTo(r) == IF r = "init" THEN "switch" ELSE "lpm3"

\* lines 178-180: LED off, DRV8833 disabled, return
PulseEnd ==
  /\ Runs("p_end")
  /\ P2OUT' = BitAnd(P2OUT, DisableMask)
  /\ pc' = ReturnTo(ret)
  /\ UNCHANGED <<ret, dir, state, clk_count, P1OUT, sw, gie, cpuoff, scg1,
                 wdtifg, ccie, ccifg, timerOn, ev, firstCmd, obs>>

----------------------------------------------------------------------------
(* main: the state machine, lines 85-129 *)

\* lines 85-88, state 0: compare clk_count with check_interval
Case0Check ==
  /\ Runs("switch")
  /\ state = 0
  /\ ev' = EvStart(0, clk_count)
  /\ pc' = IF IdleDue(clk_count) THEN "c0_reset" ELSE "lpm3"
  /\ UNCHANGED <<ret, dir, state, clk_count, P1OUT, P2OUT, sw, gie, cpuoff,
                 scg1, wdtifg, ccie, ccifg, timerOn, firstCmd, obs>>

\* line 89
Case0Reset ==
  /\ Runs("c0_reset")
  /\ clk_count' = 0
  /\ ev' = [ev EXCEPT !.rst = TRUE]
  /\ pc' = "c0_sw"
  /\ UNCHANGED <<ret, dir, state, P1OUT, P2OUT, sw, gie, cpuoff, scg1,
                 wdtifg, ccie, ccifg, timerOn, firstCmd, obs>>

\* lines 90-95: float switch low: state = 1, Solenoid_pulse(on)
Case0Switch ==
  /\ Runs("c0_sw")
  /\ IF NeedsWater(P2IN)
       THEN /\ state' = 1
            /\ Call(on, "c0")
            /\ ev' = [ev EXCEPT !.sw = Level(sw), !.np = @ + 1, !.pd = on]
       ELSE /\ Break
            /\ ev' = [ev EXCEPT !.sw = Level(sw)]
            /\ obs' = ObsRead
            /\ UNCHANGED <<state, dir, ret, firstCmd>>
  /\ UNCHANGED <<clk_count, P1OUT, P2OUT, sw, gie, cpuoff, scg1, wdtifg,
                 ccie, ccifg, timerOn>>

\* lines 85, 100, state 1: compare clk_count with the minimum on time
Case1Check ==
  /\ Runs("switch")
  /\ state = 1
  /\ ev' = EvStart(1, clk_count)
  /\ pc' = IF MinOnElapsed(clk_count) THEN "c1_sw" ELSE "lpm3"
  /\ UNCHANGED <<ret, dir, state, clk_count, P1OUT, P2OUT, sw, gie, cpuoff,
                 scg1, wdtifg, ccie, ccifg, timerOn, firstCmd, obs>>

\* line 101: if(P2IN)
Case1Switch ==
  /\ Runs("c1_sw")
  /\ obs' = ObsRead
  /\ ev' = [ev EXCEPT !.sw = Level(sw)]
  /\ pc' = IF PortHigh(P2IN) THEN "c1_full" ELSE "c1_max"
  /\ UNCHANGED <<ret, dir, state, clk_count, P1OUT, P2OUT, sw, gie, cpuoff,
                 scg1, wdtifg, ccie, ccifg, timerOn, firstCmd>>

\* lines 102-104: clk_count = 0, state = 2, Solenoid_pulse(off)
Case1Full ==
  /\ Runs("c1_full")
  /\ clk_count' = 0
  /\ state' = 2
  /\ Call(off, "c1_full")
  /\ ev' = [ev EXCEPT !.rst = TRUE, !.np = @ + 1, !.pd = off]
  /\ UNCHANGED <<P1OUT, P2OUT, sw, gie, cpuoff, scg1, wdtifg, ccie, ccifg,
                 timerOn>>

\* lines 107-110 with clk_count = 0 added to the fault branch
Case1Max_reset ==
  /\ Runs("c1_max")
  /\ IF MaxOnReached(clk_count)
       THEN /\ state' = 3
            /\ clk_count' = 0
            /\ Call(off, "c1_max")
            /\ ev' = [ev EXCEPT !.c2 = clk_count, !.np = @ + 1, !.pd = off]
       ELSE /\ Break
            /\ ev' = [ev EXCEPT !.c2 = clk_count]
            /\ UNCHANGED <<state, dir, ret, firstCmd, obs, clk_count>>
  /\ UNCHANGED <<P1OUT, P2OUT, sw, gie, cpuoff, scg1, wdtifg, ccie, ccifg,
                 timerOn>>

\* lines 107-110 without the state = 3 of line 108
Case1Max_nostate ==
  /\ Runs("c1_max")
  /\ IF MaxOnReached(clk_count)
       THEN /\ Call(off, "c1_max")
            /\ ev' = [ev EXCEPT !.c2 = clk_count, !.np = @ + 1, !.pd = off]
            /\ UNCHANGED state
       ELSE /\ Break
            /\ ev' = [ev EXCEPT !.c2 = clk_count]
            /\ UNCHANGED <<state, dir, ret, firstCmd, obs>>
  /\ UNCHANGED <<clk_count, P1OUT, P2OUT, sw, gie, cpuoff, scg1, wdtifg,
                 ccie, ccifg, timerOn>>

\* lines 107-110: water on too long: state = 3, Solenoid_pulse(off)
Case1Max ==
  /\ Runs("c1_max")
  /\ IF MaxOnReached(clk_count)
       THEN /\ state' = 3
            /\ Call(off, "c1_max")
            /\ ev' = [ev EXCEPT !.c2 = clk_count, !.np = @ + 1, !.pd = off]
       ELSE /\ Break
            /\ ev' = [ev EXCEPT !.c2 = clk_count]
            /\ UNCHANGED <<state, dir, ret, firstCmd, obs>>
  /\ UNCHANGED <<clk_count, P1OUT, P2OUT, sw, gie, cpuoff, scg1, wdtifg,
                 ccie, ccifg, timerOn>>

\* lines 85, 116, state 2: compare clk_count with the cool-down time
Case2Check ==
  /\ Runs("switch")
  /\ state = 2
  /\ ev' = EvStart(2, clk_count)
  /\ pc' = IF CooldownDone(clk_count) THEN "c2_reset" ELSE "lpm3"
  /\ UNCHANGED <<ret, dir, state, clk_count, P1OUT, P2OUT, sw, gie, cpuoff,
                 scg1, wdtifg, ccie, ccifg, timerOn, firstCmd, obs>>

\* lines 117-119
Case2Reset ==
  /\ Runs("c2_reset")
  /\ clk_count' = 0
  /\ state' = 0
  /\ ev' = [ev EXCEPT !.rst = TRUE]
  /\ Break
  /\ UNCHANGED <<ret, dir, P1OUT, P2OUT, sw, gie, cpuoff, scg1, wdtifg,
                 ccie, ccifg, timerOn, firstCmd, obs>>

\* lines 123-126 without the clk_count = 0 of line 125
Case3Check_noreset ==
  /\ Runs("switch")
  /\ state = 3
  /\ IF PortHigh(P2IN)
       THEN /\ state' = 0
            /\ Break
       ELSE /\ Break
            /\ UNCHANGED state
  /\ obs' = ObsRead
  /\ ev' = [EvStart(3, clk_count) EXCEPT !.sw = Level(sw)]
  /\ UNCHANGED <<ret, dir, clk_count, P1OUT, P2OUT, sw, gie, cpuoff, scg1,
                 wdtifg, ccie, ccifg, timerOn, firstCmd>>

\* lines 85, 123-124, state 3: if(P2IN) state = 0
Case3Check ==
  /\ Runs("switch")
  /\ state = 3
  /\ IF PortHigh(P2IN)
       THEN /\ state' = 0
            /\ pc' = "c3_reset"
       ELSE /\ Break
            /\ UNCHANGED state
  /\ obs' = ObsRead
  /\ ev' = [EvStart(3, clk_count) EXCEPT !.sw = Level(sw)]
  /\ UNCHANGED <<ret, dir, clk_count, P1OUT, P2OUT, sw, gie, cpuoff, scg1,
                 wdtifg, ccie, ccifg, timerOn, firstCmd>>

\* lines 125-127
Case3Reset ==
  /\ Runs("c3_reset")
  /\ clk_count' = 0
  /\ ev' = [ev EXCEPT !.rst = TRUE]
  /\ Break
  /\ UNCHANGED <<ret, dir, state, P1OUT, P2OUT, sw, gie, cpuoff, scg1,
                 wdtifg, ccie, ccifg, timerOn, firstCmd, obs>>

\* line 131: __bis_SR_register(LPM3_bits + GIE); the loop continues at
\* line 85 once an interrupt handler has cleared CPUOFF
EnterLPM3 ==
  /\ Runs("lpm3")
  /\ cpuoff' = TRUE
  /\ scg1' = TRUE
  /\ gie' = TRUE
  /\ ev' = EvNone
  /\ pc' = "switch"
  /\ UNCHANGED <<ret, dir, state, clk_count, P1OUT, P2OUT, sw, wdtifg, ccie,
                 ccifg, timerOn, firstCmd, obs>>

----------------------------------------------------------------------------

Next ==
  \/ FloatSwitch
  \/ WdtExpire
  \/ TimerExpire
  \/ watchdog_timer
  \/ Timer_A
  \/ InitialPulse
  \/ PulseDrive
  \/ PulseSleep1
  \/ PulseDecay
  \/ PulseSleep2
  \/ PulseEnd
  \/ Case0Check
  \/ Case0Reset
  \/ Case0Switch
  \/ Case1Check
  \/ Case1Switch
  \/ Case1Full
  \/ Case1Max
  \/ Case2Check
  \/ Case2Reset
  \/ Case3Check
  \/ Case3Reset
  \/ EnterLPM3

----------------------------------------------------------------------------
(* The program late in a long stay in state 3: the float switch has read   *)
(* low ever since the valve was opened, the fault branch has closed it,    *)
(* and clk_count has been counting since                                   *)

InitWrap ==
  /\ pc = "switch"
  /\ ret = "c1_max"
  /\ dir = off
  /\ state = 3
  /\ clk_count = UIntMod - WrapLead
  /\ P1OUT = 0
  /\ P2OUT = 0
  /\ sw = FALSE
  /\ gie = TRUE
  /\ cpuoff = TRUE
  /\ scg1 = TRUE
  /\ wdtifg = FALSE
  /\ ccie = FALSE
  /\ ccifg = FALSE
  /\ timerOn = TRUE
  /\ ev = EvNone
  /\ firstCmd = "Close"
  /\ obs = [last |-> "Close", opened |-> TRUE, high |-> FALSE,
            since |-> SinceCap]

\* the interval timer expires; it runs until the wrap and on to MaxTick
WdtExpireWrap ==
  /\ ~wdtifg
  /\ clk_count < MaxTick \/ clk_count >= UIntMod - WrapLead
  /\ wdtifg' = TRUE
  /\ UNCHANGED <<pc, ret, dir, state, clk_count, P1OUT, P2OUT, sw, gie,
                 cpuoff, scg1, ccie, ccifg, timerOn, ev, firstCmd, obs>>

NextWrap ==
  \/ FloatSwitch
  \/ WdtExpireWrap
  \/ TimerExpire
  \/ watchdog_timer
  \/ Timer_A
  \/ PulseDrive
  \/ PulseSleep1
  \/ PulseDecay
  \/ PulseSleep2
  \/ PulseEnd
  \/ Case0Check
  \/ Case0Reset
  \/ Case0Switch
  \/ Case1Check
  \/ Case1Switch
  \/ Case1Full
  \/ Case1Max
  \/ Case2Check
  \/ Case2Reset
  \/ Case3Check
  \/ Case3Reset
  \/ EnterLPM3

SpecWrap == InitWrap /\ [][NextWrap]_vars

----------------------------------------------------------------------------
(* The schedule of the configured clocks: an interval interrupt (21.8 s)   *)
(* arrives while main sleeps at line 131, a Timer_A interrupt (13 ms,      *)
(* 2 ms) while Solenoid_pulse sleeps, and both clocks keep running         *)

WdtExpireAsleep ==
  /\ ~wdtifg
  /\ clk_count < MaxTick
  /\ pc = "switch"
  /\ cpuoff
  /\ wdtifg' = TRUE
  /\ UNCHANGED <<pc, ret, dir, state, clk_count, P1OUT, P2OUT, sw, gie,
                 cpuoff, scg1, ccie, ccifg, timerOn, ev, firstCmd, obs>>

TimerExpireAsleep ==
  /\ timerOn
  /\ ~scg1
  /\ ~ccifg
  /\ pc \in {"p_decay", "p_end"}
  /\ cpuoff
  /\ ccifg' = TRUE
  /\ UNCHANGED <<pc, ret, dir, state, clk_count, P1OUT, P2OUT, sw, gie,
                 cpuoff, scg1, wdtifg, ccie, timerOn, ev, firstCmd, obs>>

\* a statement of main or of Solenoid_pulse
MainStep ==
  \/ InitialPulse \/ PulseDrive \/ PulseSleep1 \/ PulseDecay \/ PulseSleep2
  \/ PulseEnd \/ Case0Check \/ Case0Reset \/ Case0Switch \/ Case1Check
  \/ Case1Switch \/ Case1Full \/ Case1Max \/ Case2Check \/ Case2Reset
  \/ Case3Check \/ Case3Reset \/ EnterLPM3

Spec == Init /\ [][Next]_vars

NextLive ==
  \/ FloatSwitch
  \/ WdtExpireAsleep
  \/ TimerExpireAsleep
  \/ watchdog_timer
  \/ Timer_A
  \/ InitialPulse
  \/ PulseDrive
  \/ PulseSleep1
  \/ PulseDecay
  \/ PulseSleep2
  \/ PulseEnd
  \/ Case0Check
  \/ Case0Reset
  \/ Case0Switch
  \/ Case1Check
  \/ Case1Switch
  \/ Case1Full
  \/ Case1Max
  \/ Case2Check
  \/ Case2Reset
  \/ Case3Check
  \/ Case3Reset
  \/ EnterLPM3

\* the CPU executes when it is awake, pending interrupts are served, and both
\* timers keep expiring
SpecLive ==
  /\ Init
  /\ [][NextLive]_vars
  /\ WF_vars(MainStep)
  /\ WF_vars(watchdog_timer)
  /\ WF_vars(Timer_A)
  /\ WF_vars(WdtExpireAsleep)
  /\ WF_vars(TimerExpireAsleep)

----------------------------------------------------------------------------
(* What an observer of the pins and of the foreground sees *)

PulsePcs == {"p_drive", "p_sleep1", "p_decay", "p_sleep2", "p_end"}

EvalPcs == {"c0_reset", "c0_sw", "c1_sw", "c1_full", "c1_max", "c2_reset",
            "c3_reset"}

\* phase of the pulse driver
Phase ==
  IF pc \in {"p_sleep1", "p_decay"} THEN "Driving"
  ELSE IF pc \in {"p_sleep2", "p_end"} THEN "Decaying"
  ELSE "Idle"

Enabled2 == BitAnd(P2OUT, nSLEEP) # 0

LedOn == BitAnd(P2OUT, LED) # 0

Lines == BitAnd(P1OUT, Solenoid_on + Solenoid_off)

\* pattern on the H-bridge
Pattern ==
  IF ~Enabled2 THEN "Disabled"
  ELSE IF Lines = Solenoid_on THEN "DriveOpen"
  ELSE IF Lines = Solenoid_off THEN "DriveClose"
  ELSE IF Lines = 0 THEN "FastDecay"
  ELSE "Both"

\* an evaluation of the state machine is complete; ev is its history
EvalDone == pc = "lpm3" /\ ev.st >= 0

\* the foreground sleeps inside Solenoid_pulse
PulseWait == pc \in {"p_decay", "p_end"} /\ cpuoff

----------------------------------------------------------------------------
(* Claims *)

\* C1: an evaluation in Idle moves to Filling and issues pulse(Open) iff the
\* clk_count it compared was > CheckIntervalTicks and the float switch read
\* low; every other Idle evaluation issues no pulse and stays in Idle.
C1_IdleToFilling ==
  LET due == ev.c > CheckIntervalTicks /\ ev.sw = "low" IN
  /\ (EvalDone /\ ev.st = 0) =>
        /\ due => (state = 1 /\ ev.np = 1 /\ ev.pd = on)
        /\ ~due => (state = 0 /\ ev.np = 0)
  /\ (pc \in PulsePcs /\ ev.st = 0) => (due /\ dir = on /\ state = 1)

C1_Witness ==
  EvalDone /\ ev.st = 0 /\ state = 1 /\ ev.c = CheckIntervalTicks + 1

\* C2: an evaluation in Filling moves to CooldownHysteresis with pulse(Close)
\* only if the clk_count it compared was > MinOnTicks and the float switch
\* read high; with clk_count <= MinOnTicks it issues no pulse and stays in
\* Filling.
C2_FillingToCooldown ==
  /\ (EvalDone /\ ev.st = 1) =>
        /\ state = 2 =>
             (ev.c > MinOnTicks /\ ev.sw = "high" /\ ev.np = 1 /\ ev.pd = off)
        /\ ev.c <= MinOnTicks => (state = 1 /\ ev.np = 0 /\ ev.sw = "none")
  /\ (pc \in PulsePcs /\ ev.st = 1 /\ state = 2) =>
        (ev.c > MinOnTicks /\ ev.sw = "high" /\ dir = off)

C2_Witness ==
  EvalDone /\ ev.st = 1 /\ state = 2 /\ ev.c = MinOnTicks + 1

C4_FaultLatched ==
  (EvalDone /\ ev.st = 3) =>
     /\ ev.np = 0
     /\ ev.sw = "low" => (state = 3 /\ ~ev.rst)
     /\ ev.sw = "high" => (state = 0 /\ ev.rst)
     /\ ev.sw # "none"

C4_Witness ==
  EvalDone /\ ev.st = 3 /\ state = 0 /\ ev.sw = "high" /\ ev.rst

C6_Outputs ==
  /\ Phase = "Driving" =>
       (Pattern = (IF dir THEN "DriveOpen" ELSE "DriveClose") /\ LedOn)
  /\ Phase = "Decaying" => (Pattern = "FastDecay" /\ LedOn)
  /\ Phase = "Idle" => (Pattern = "Disabled" /\ Lines = 0)
  /\ (Phase = "Idle" /\ (ret # "init" \/ pc \notin {"init_pulse", "p_drive"}))
       => ~LedOn

C6_Order ==
  /\ Phase' # Phase =>
       <<Phase, Phase'>> \in {<<"Idle", "Driving">>, <<"Driving", "Decaying">>,
                              <<"Decaying", "Idle">>}
  /\ Pattern' # Pattern =>
       \/ Pattern = "Disabled" /\ Pattern' \in {"DriveOpen", "DriveClose"}
       \/ Pattern \in {"DriveOpen", "DriveClose"} /\ Pattern' = "FastDecay"
       \/ Pattern = "FastDecay" /\ Pattern' = "Disabled"

C6_PulsePhases == []C6_Outputs /\ [][C6_Order]_vars

C6_Witness ==
  Phase = "Decaying" /\ dir = on /\ Pattern = "FastDecay" /\ ret = "c0"

\* C7: a wait inside Solenoid_pulse ends only through the Timer_A handler: the
\* step that wakes the foreground there finds the timer interrupt enabled and
\* flagged, disables it and leaves clk_count alone.
C7_WaitEndsOnlyByTimer ==
  [][(PulseWait /\ ~cpuoff') =>
        (ccie /\ ccifg /\ ~ccie' /\ clk_count' = clk_count)]_vars

\* C8: the foreground writes clk_count = 0 in exactly these evaluations: Idle
\* with clk_count > CheckIntervalTicks, Filling -> CooldownHysteresis,
\* CooldownHysteresis -> Idle, FaultWaitingFull -> Idle; every other change of
\* clk_count is an increment by the interval interrupt.
C8_Resets ==
  EvalDone =>
    (ev.rst <=> \/ ev.st = 0 /\ ev.c > CheckIntervalTicks
                \/ ev.st = 1 /\ state = 2
                \/ ev.st = 2 /\ state = 0
                \/ ev.st = 3 /\ state = 0)

C8_Frame ==
  clk_count' # clk_count =>
    \/ clk_count' = clk_count + 1 /\ pc' = pc /\ state' = state
    \/ clk_count' = 0 /\ ev'.rst /\ ~ev.rst

C8_ResetPoints == []C8_Resets /\ [][C8_Frame]_vars

C8_Witness ==
  EvalDone /\ ev.st = 1 /\ state = 3 /\ ~ev.rst /\ clk_count > MaxOnTicks

\* C9: the first Solenoid_pulse call is pulse(Close); it has returned, with the
\* bridge Disabled and the LED off, before the first evaluation and before any
\* pulse(Open); from then on the foreground alternates evaluation and
\* low-power wait and always has a next statement.
C9_FirstClose ==
  /\ pc # "init_pulse" => firstCmd = "Close"
  /\ pc \notin (PulsePcs \cup {"init_pulse"}) =>
       (Pattern = "Disabled" /\ Lines = 0 /\ ~LedOn)
  /\ (pc \in PulsePcs /\ dir = on) => ret # "init"
  /\ ev.st >= 0 => ret \in {"init", "c0", "c1_full", "c1_max"}
  /\ (~cpuoff /\ ~WdtPending /\ ~TimerPending) => ENABLED MainStep

C9_Loop ==
  pc' # pc =>
    \/ pc = "init_pulse" /\ pc' = "p_drive"
    \/ pc \in PulsePcs /\ pc' \in PulsePcs
    \/ pc = "p_end" /\ ret = "init" /\ pc' = "switch" /\ ~cpuoff'
    \/ pc = "p_end" /\ ret # "init" /\ pc' = "lpm3"
    \/ pc = "switch" /\ pc' \in EvalPcs \cup {"lpm3"}
    \/ pc \in EvalPcs /\ pc' \in EvalPcs \cup {"lpm3", "p_drive"}
    \/ pc = "lpm3" /\ pc' = "switch" /\ cpuoff'

C9_StartUp == []C9_FirstClose /\ [][C9_Loop]_vars

C9_Witness ==
  pc = "p_drive" /\ dir = on /\ firstCmd = "Close" /\ ret = "c0"

\* C10: one evaluation calls Solenoid_pulse at most once, and every call
\* starts with the pulse driver Idle and the bridge Disabled.
C10_OnePulse ==
  /\ ev.np <= 1
  /\ pc = "p_drive" => (Pattern = "Disabled" /\ Lines = 0 /\ Phase = "Idle")
  /\ pc \in PulsePcs => (ev.st >= 0 => ev.np = 1)

C10_Witness ==
  pc = "p_drive" /\ ev.np = 1 /\ ret = "c1_max" /\ ev.st = 1

\* C11: the outcome of an evaluation (next state, clk_count reset, valve
\* command) is a function of the state, the clk_count values and the float
\* switch level it read, and of nothing else: it is the outcome the transition
\* table gives for them.
Table(st, c, c2, s) ==
  CASE st = 0 ->
         IF c > CheckIntervalTicks
           THEN IF s = "low" THEN <<1, TRUE, 1, on>> ELSE <<0, TRUE, 0, FALSE>>
           ELSE <<0, FALSE, 0, FALSE>>
    [] st = 1 ->
         IF c <= MinOnTicks THEN <<1, FALSE, 0, FALSE>>
         ELSE IF s = "high" THEN <<2, TRUE, 1, off>>
         ELSE IF c2 >= MaxOnTicks THEN <<3, FALSE, 1, off>>
         ELSE <<1, FALSE, 0, FALSE>>
    [] st = 2 ->
         IF c >= CooldownTicks THEN <<0, TRUE, 0, FALSE>>
         ELSE <<2, FALSE, 0, FALSE>>
    [] st = 3 ->
         IF s = "high" THEN <<0, TRUE, 0, FALSE>> ELSE <<3, FALSE, 0, FALSE>>

C11_Deterministic ==
  EvalDone =>
    <<state, ev.rst, ev.np, ev.pd>> = Table(ev.st, ev.c, ev.c2, ev.sw)

C11_Witness ==
  EvalDone /\ ev.st = 1 /\ ev.sw = "low" /\ ev.c < ev.c2 /\ state = 3

\* C12: the interval interrupt never increments clk_count between the
\* comparison of an evaluation and its clk_count = 0: when the reset is the
\* next statement, clk_count is still the value that was compared.
C12_AtomicReset ==
  pc \in {"c0_reset", "c1_full", "c2_reset"} => clk_count = ev.c

\* C13: a watchdog_timer run changes only clk_count (by one), WDTIFG and the
\* low-power bits, a Timer_A run only TA0CCTL0 and CPUOFF; state and the port
\* outputs change only in a foreground statement.
C13_Handlers ==
  /\ (wdtifg /\ ~wdtifg') =>
       /\ clk_count' = (clk_count + 1) % UIntMod
       /\ UNCHANGED <<pc, ret, dir, state, P1OUT, P2OUT, ccie, ccifg>>
  /\ (ccie /\ ~ccie') =>
       UNCHANGED <<pc, ret, dir, state, P1OUT, P2OUT, clk_count, wdtifg>>
  /\ (state' # state \/ P1OUT' # P1OUT \/ P2OUT' # P2OUT) =>
       (pc' # pc /\ ~cpuoff /\ ~WdtPending /\ ~TimerPending)

C13_HandlerFrame == [][C13_Handlers]_vars

C13_Witness ==
  state = 2 /\ clk_count = 1 /\ pc = "p_end" /\ ~cpuoff /\ ~ccie /\ ~wdtifg

\* C14: the Timer_A interrupt is enabled only inside Solenoid_pulse.
C14_TimerOffOutsidePulse == pc \notin PulsePcs => ~ccie

\* C19: SELECT1 and SELECT2 are never high together: in Driving exactly the
\* line of the requested direction is high, in every other phase both are low.
C19_Lines ==
  /\ Lines # Solenoid_on + Solenoid_off
  /\ Phase = "Driving" =>
       /\ dir => P1OUT = 16
       /\ ~dir => P1OUT = 32
  /\ Phase # "Driving" => P1OUT = 0

C19_Witness == Phase = "Driving" /\ dir /\ P1OUT = 16 /\ cpuoff

\* C20: while the main loop evaluates or waits, every Port 2 output is low, so
\* P2IN is nonzero exactly when the float switch pin is high.
C20_RawPort ==
  pc \notin (PulsePcs \cup {"init_pulse"}) =>
     /\ P2OUT = 0
     /\ (P2IN # 0) <=> sw
     /\ (P2IN # 0) <=> (BitAnd(P2IN, 16) # 0)

C20_Witness == pc = "c1_sw" /\ ~cpuoff /\ sw /\ P2IN = 16

\* Solenoid_pulse is being called in this step
Calling == pc' = "p_drive" /\ pc # "p_drive"

\* C16: the valve commands alternate, starting with Close: every call has the
\* direction the previous call had not, and when an Open follows an earlier
\* Open the float switch has been read high in between.
C16_Step ==
  Calling =>
    /\ CmdName(dir') # obs.last
    /\ obs.last = "none" => dir' = off
    /\ (dir' = on /\ obs.opened) => obs.high

C16_Alternate == [][C16_Step]_vars

\* a second Open: one that follows a Close of line 104
C16_Witness ==
  /\ pc = "p_drive" /\ dir = on /\ obs.last = "Open" /\ obs.opened
  /\ obs.since < SinceCap

\* C18: when Open is called, at least CooldownTicks + CheckIntervalTicks + 1
\* interval interrupts have been served since the last Close of the
\* Filling -> CooldownHysteresis transition.
C18_Step ==
  (Calling /\ dir' = on) =>
     obs.since >= CooldownTicks + CheckIntervalTicks + 1

C15_Monotonic ==
  [][(wdtifg /\ ~wdtifg') =>
        (clk_count' = clk_count + 1 /\ clk_count' > clk_count)]_vars

\* C17: an evaluation that leaves the controller in Filling compared a
\* clk_count < MaxOnTicks, and while the interval interrupts continue every
\* Open is followed by a Close.
C17_Safety ==
  (EvalDone /\ ev.st = 1 /\ state = 1) =>
     (ev.c < MaxOnTicks /\ ev.c2 < MaxOnTicks)

C17_ValveCloses ==
  /\ []C17_Safety
  /\ (obs.last = "Open") ~> (obs.last = "Close")

C17_Witness ==
  /\ obs.last = "Close" /\ obs.opened /\ ~obs.high
  /\ state = 3 /\ pc = "lpm3" /\ clk_count = MaxOnTicks

====
